---- MODULE Spec2Model ----
(***************************************************************************)
(* The aggregation calls of the notebook                                   *)
(* 02.04-Computation-on-arrays-aggregates.ipynb: an array is built         *)
(* (L, big_array, M, heights), a cell calls one aggregate on it (sum, min, *)
(* max, mean, std, percentile, median, with or without axis=) or one of    *)
(* the built-ins sum, min and max, the result is displayed, and the kernel *)
(* is ready for the next cell.                                             *)
(*                                                                         *)
(* Numbers.  An int64 array holds integers.  A float64 array holds floats  *)
(* of MantBits significant bits (float64 has 53), written as the integers  *)
(* they denote; every float addition rounds to nearest, ties to even.      *)
(* A float64 result computed from int64 data (mean, percentile, median) is *)
(* the exact rational <<numerator, denominator>>; std, an irrational       *)
(* number in general, is the record [sqrt |-> v] of the rational v whose   *)
(* square root it is.                                                      *)
(***************************************************************************)
EXTENDS Integers, Sequences, FiniteSets, TLC

VARIABLES arr, out, pc

vars == <<arr, out, pc>>

-----------------------------------------------------------------------------
(* Bounds of the model *)

MaxLen == 4        \* longest 1-D array drawn
MaxCells == 4      \* most elements (rows * columns) of a 2-D array drawn
MaxVal == 2        \* int64 elements are drawn from 0..MaxVal
MantBits == 3      \* significant bits of a model float

-----------------------------------------------------------------------------
(* Arithmetic helpers *)

RECURSIVE Pow2(_)
Pow2(k) == IF k = 0 THEN 1 ELSE 2 * Pow2(k - 1)

\* number of low bits a nonnegative x must lose to fit MantBits bits
RECURSIVE ExcessBits(_)
ExcessBits(x) == IF x < Pow2(MantBits) THEN 0 ELSE 1 + ExcessBits(x \div 2)

\* IEEE round-to-nearest, ties-to-even, of a nonnegative real that is an integer
RoundFloat(x) ==
    LET e == ExcessBits(x)
        q == x \div Pow2(e)
        r == x % Pow2(e)
        half == Pow2(e) \div 2
        up == e > 0 /\ (r > half \/ (r = half /\ q % 2 = 1))
    IN  (IF up THEN q + 1 ELSE q) * Pow2(e)

\* the ufuncs np.add, np.minimum, np.maximum on two scalars of a dtype
np_add(dtype, x, y) == IF dtype = "float64" THEN RoundFloat(x + y) ELSE x + y

\* mutant: the comparison is inverted
np_minimum_inverted(x, y) == IF y < x THEN x ELSE y

np_minimum(x, y) == IF y < x THEN y ELSE x

np_maximum(x, y) == IF y > x THEN y ELSE x

ufunc(op, dtype, x, y) ==
    CASE op = "add" -> np_add(dtype, x, y)
      [] op = "minimum" -> np_minimum(x, y)
      [] op = "maximum" -> np_maximum(x, y)

-----------------------------------------------------------------------------
(* The arrays of the notebook *)

\* M = rng.integers(0, 10, (3, 4)), as printed
M == [dtype |-> "int64", ndim |-> 2,
      data |-> << <<1, 1, 1, 0>>, <<3, 4, 7, 2>>, <<0, 5, 3, 8>> >>]

\* heights = np.array(data['height(cm)']), as printed
heights == [dtype |-> "int64", ndim |-> 1,
            data |-> <<189, 170, 189, 163, 183, 171, 185, 168, 173, 183, 173,
                       173, 175, 178, 183, 193, 178, 173, 174, 183, 183, 168,
                       170, 178, 182, 180, 183, 178, 182, 188, 175, 179, 183,
                       193, 182, 183, 177, 185, 188, 188, 182, 185, 191, 182>>]

IntVals == 0..MaxVal

\* a small float, half the spacing of the floats just above the large one
FloatGridVals == {2, Pow2(MantBits + 1)}

\* ... and a float that needs every bit of the mantissa
FloatVals == {1, Pow2(MantBits) - 3} \cup FloatGridVals

\* L = rng.random(n): any 1-D float64 array, the empty one included
L == {[dtype |-> "float64", ndim |-> 1, data |-> d] :
         d \in UNION {[1..n -> FloatVals] : n \in 0..MaxLen}}

\* big_array = rng.random(n), n large: 1-D float64 arrays long enough (8 elements
\* and more) for np.sum to add them in unrolled blocks
big_array == {[dtype |-> "float64", ndim |-> 1, data |-> d] :
                 d \in UNION {[1..n -> FloatGridVals] : n \in 8..9}}

IntArrays1D == {[dtype |-> "int64", ndim |-> 1, data |-> d] :
                   d \in UNION {[1..n -> IntVals] : n \in 0..MaxLen}}

Shapes == {s \in (1..MaxCells) \X (1..MaxCells) : s[1] * s[2] <= MaxCells}

\* rng.integers(lo, hi, (r, c)): any rectangular 2-D int64 array
IntArrays2D == {[dtype |-> "int64", ndim |-> 2, data |-> d] :
                   d \in UNION {[1..s[1] -> [1..s[2] -> IntVals]] : s \in Shapes}}

\* rng.random((r, c)): any rectangular 2-D float64 array
FloatArrays2D == {[dtype |-> "float64", ndim |-> 2, data |-> d] :
                     d \in UNION {[1..s[1] -> [1..s[2] -> FloatGridVals]] : s \in Shapes}}

Arrays == L \cup big_array \cup IntArrays1D \cup IntArrays2D \cup FloatArrays2D
             \cup {M, heights}

shape(a) == IF a.ndim = 1 THEN <<Len(a.data)>>
            ELSE <<Len(a.data), Len(a.data[1])>>

\* a.ravel(): the elements in row-major order
RECURSIVE Concat(_)
Concat(rows) == IF rows = <<>> THEN <<>> ELSE Head(rows) \o Concat(Tail(rows))

\* mutant: only the first row of a grid is taken
ravel_first_row(a) == IF a.ndim = 1 THEN a.data ELSE a.data[1]

\* the elements of the array as one sequence, a grid row by row
ravel(a) == IF a.ndim = 1 THEN a.data ELSE Concat(a.data)

-----------------------------------------------------------------------------
(* Whole-array aggregates *)

\* TLC evaluates an operator's argument only where it is used; testing
\* Evaluated(x) evaluates x on the spot, which keeps the evaluation of a fold
\* over the 44 heights shallow
Evaluated(x) == x = x

\* the accumulator acc after folding s[lo], ..., s[hi] into it, one element after
\* the other from left to right: acc = op(acc, s[i]) for i = lo, lo+1, ..., hi
\* (the elements lo..mid are folded in first, then the elements mid+1..hi)
RECURSIVE accumulate(_, _, _, _, _, _)
accumulate(op, dtype, acc, s, lo, hi) ==
    IF lo > hi THEN acc
    ELSE IF lo = hi THEN ufunc(op, dtype, acc, s[lo])
    ELSE LET mid == (lo + hi) \div 2
             left == accumulate(op, dtype, acc, s, lo, mid)
         IN  IF Evaluated(left) THEN accumulate(op, dtype, left, s, mid + 1, hi)
             ELSE left

\* mutant: the fold starts at the first element again, counting it twice
reduce_first_twice(op, dtype, s) == accumulate(op, dtype, s[1], s, 1, Len(s))

\* ufunc.reduce over a 1-D sequence: start from the first element, fold the rest
reduce(op, dtype, s) == accumulate(op, dtype, s[1], s, 2, Len(s))

\* mutant: the accumulator starts at 0 but the loop at the second element
np_sum_skips_first(dtype, s) == accumulate("add", dtype, 0, s, 2, Len(s))

\* the float64 add loop on 8 elements and more: eight running sums r[1..8], each
\* over every eighth element, are added pairwise, and the elements left over
\* after the last full block of eight are added one by one
pairwise_sum(dtype, s) ==
    LET blocks == Len(s) \div 8
        r == [j \in 1..8 |->
                reduce("add", dtype, [k \in 1..blocks |-> s[8 * (k - 1) + j]])]
        res == np_add(dtype,
                      np_add(dtype, np_add(dtype, r[1], r[2]), np_add(dtype, r[3], r[4])),
                      np_add(dtype, np_add(dtype, r[5], r[6]), np_add(dtype, r[7], r[8])))
    IN  accumulate("add", dtype, res, s, 8 * blocks + 1, Len(s))

\* np.sum: 0 (the identity of add) for no element; float64 data of 8 elements and
\* more goes through the unrolled loop, anything else is added left to right
np_sum(dtype, s) ==
    IF Len(s) = 0 THEN 0
    ELSE IF dtype = "float64" /\ Len(s) >= 8 THEN pairwise_sum(dtype, s)
    ELSE reduce("add", dtype, s)

\* the built-in sum(s, start): start + s[1] + s[2] + ..., from left to right
builtin_sum(dtype, s, start) == accumulate("add", dtype, start, s, 1, Len(s))

\* mutant: only the first and the last item are compared
builtin_min_of_ends(s) == IF s[1] <= s[Len(s)] THEN s[1] ELSE s[Len(s)]

\* the built-in min(s) and max(s): the loop keeps the first item that no other
\* item is smaller (larger) than
builtin_min(s) ==
    s[CHOOSE i \in 1..Len(s) :
         (\A j \in 1..Len(s) : j < i => s[i] < s[j]) /\ (\A j \in 1..Len(s) : s[i] <= s[j])]

builtin_max(s) ==
    s[CHOOSE i \in 1..Len(s) :
         (\A j \in 1..Len(s) : j < i => s[i] > s[j]) /\ (\A j \in 1..Len(s) : s[i] >= s[j])]

\* minimum and maximum never round: the dtype is immaterial to them
np_min(s) == reduce("minimum", "int64", s)

np_max(s) == reduce("maximum", "int64", s)

\* mutant: integer division of the int64 sum
mean_floor_division(dtype, s) == <<np_sum(dtype, s) \div Len(s), 1>>

\* a.mean(): the sum divided by the number of elements
mean(dtype, s) == <<np_sum(dtype, s), Len(s)>>

\* sum over the elements lo..hi of (n*x - total)^2, which is n^2 * |x - x.mean()|^2
RECURSIVE SumSqDev(_, _, _, _)
SumSqDev(s, total, lo, hi) ==
    IF lo > hi THEN 0
    ELSE IF lo = hi THEN (Len(s) * s[lo] - total) * (Len(s) * s[lo] - total)
    ELSE SumSqDev(s, total, lo, (lo + hi) \div 2)
            + SumSqDev(s, total, (lo + hi) \div 2 + 1, hi)

\* mutant: the sample variance (ddof=1), dividing by n-1
np_var_ddof1(s) ==
    <<SumSqDev(s, np_sum("int64", s), 1, Len(s)), Len(s) * Len(s) * (Len(s) - 1)>>

\* np.var with ddof=0: mean(abs(x - x.mean())**2)
np_var(s) ==
    LET total == np_sum("int64", s)
    IN  IF Evaluated(total)
        THEN <<SumSqDev(s, total, 1, Len(s)), Len(s) * Len(s) * Len(s)>>
        ELSE <<0, 0>>

\* a.std(): sqrt(var)
std(s) == [sqrt |-> np_var(s)]

\* the place of s[i] in ascending order: after every smaller element and after
\* the equal ones that come before it
Place(s, i) == 1 + Cardinality({j \in 1..Len(s) : s[j] < s[i] \/ (s[j] = s[i] /\ j < i)})

\* np.sort: ascending
Sort(s) == [k \in 1..Len(s) |-> s[CHOOSE i \in 1..Len(s) : Place(s, i) = k]]

\* mutant: the data is not sorted first
np_percentile_unsorted(s, q) ==
    LET n == Len(s)
        k == q * (n - 1)
        previous == k \div 100
        next == IF previous + 1 > n - 1 THEN n - 1 ELSE previous + 1
        gamma100 == k % 100
    IN  <<100 * s[previous + 1] + gamma100 * (s[next + 1] - s[previous + 1]), 100>>

\* mutant: method='lower', no interpolation between the neighbours
np_percentile_lower(s, q) ==
    LET v == Sort(s)
        previous == (q * (Len(s) - 1)) \div 100
    IN  <<100 * v[previous + 1], 100>>

\* mutant: the virtual index is q/100 * n instead of q/100 * (n-1)
np_percentile_index_n(s, q) ==
    LET n == Len(s)
        v == Sort(s)
        k == q * n
        previous == IF k \div 100 > n - 1 THEN n - 1 ELSE k \div 100
        next == IF previous + 1 > n - 1 THEN n - 1 ELSE previous + 1
        gamma100 == k % 100
    IN  <<100 * v[previous + 1] + gamma100 * (v[next + 1] - v[previous + 1]), 100>>

\* mutant: the weights of the two neighbours are exchanged
np_percentile_weight_swapped(s, q) ==
    LET n == Len(s)
        v == Sort(s)
        k == q * (n - 1)
        previous == k \div 100
        next == IF previous + 1 > n - 1 THEN n - 1 ELSE previous + 1
        gamma100 == 100 - (k % 100)
    IN  <<100 * v[previous + 1] + gamma100 * (v[next + 1] - v[previous + 1]), 100>>

\* np.percentile(a, q), method='linear': virtual index q/100*(n-1), the two
\* neighbours previous and next (clipped to n-1), gamma the fractional part
np_percentile(s, q) ==
    LET n == Len(s)
        v == Sort(s)
        k == q * (n - 1)
        previous == k \div 100
        next == IF previous + 1 > n - 1 THEN n - 1 ELSE previous + 1
        gamma100 == k % 100
    IN  <<100 * v[previous + 1] + gamma100 * (v[next + 1] - v[previous + 1]), 100>>

\* np.median(a): mean of the middle element(s) of the sorted data
np_median(s) ==
    LET n == Len(s)
        v == Sort(s)
        h == n \div 2
    IN  IF n % 2 = 1 THEN <<v[h + 1], 1>> ELSE <<v[h] + v[h + 1], 2>>

-----------------------------------------------------------------------------
(* Aggregates along an axis *)

\* axis=None is <<>>, axis=k is <<k>>; likewise the q of a call without one
None == <<>>

\* mutant: no range check, an axis beyond the last is taken as the last
axis_clamped(axis, ndim) == TRUE

\* normalize_axis_index: -ndim <= axis < ndim, a negative axis counts from the end
axis_in_range(axis, ndim) == -ndim <= axis /\ axis < ndim

normalize_axis(axis, ndim) == IF axis < 0 THEN axis + ndim ELSE axis

\* mutant: the rows after the first are left out
reduce_rows_first_only(op, dtype, rows, i) == rows[1]

\* ufunc.reduce(rows, axis=0): the rows are folded into one another element by
\* element, leaving one entry per column
RECURSIVE reduce_rows(_, _, _, _)
reduce_rows(op, dtype, rows, i) ==
    IF i = 1 THEN rows[1]
    ELSE LET acc == reduce_rows(op, dtype, rows, i - 1)
         IN  [j \in 1..Len(acc) |-> ufunc(op, dtype, acc[j], rows[i][j])]

\* mutant: the axis names the dimension that is kept
reduce_axis_kept(op, dtype, rows, axis) ==
    IF axis = 1 THEN reduce_rows(op, dtype, rows, Len(rows))
    ELSE [i \in 1..Len(rows) |-> reduce(op, dtype, rows[i])]

\* ufunc.reduce(rows, axis): the named axis is the one folded away
reduce_axis(op, dtype, rows, axis) ==
    IF axis = 0 THEN reduce_rows(op, dtype, rows, Len(rows))
    ELSE [i \in 1..Len(rows) |-> reduce(op, dtype, rows[i])]

\* np.moveaxis(a, axis, -1): the 1-D lanes that run along the axis
lanes(rows, axis) ==
    IF axis = 1 THEN rows
    ELSE [j \in 1..Len(rows[1]) |-> [i \in 1..Len(rows) |-> rows[i][j]]]

ufunc_of(kind) == CASE kind = "sum" -> "add"
                    [] kind = "min" -> "minimum"
                    [] kind = "max" -> "maximum"

\* the aggregate of one 1-D sequence
aggregate_1d(kind, dtype, s, q) ==
    CASE kind = "sum" -> np_sum(dtype, s)
      [] kind = "min" -> np_min(s)
      [] kind = "max" -> np_max(s)
      [] kind = "mean" -> mean(dtype, s)
      [] kind = "std" -> std(s)
      [] kind = "percentile" -> np_percentile(s, q[1])
      [] kind = "median" -> np_median(s)

\* the aggregate of a 2-D array along axis 0 or 1 (already normalized)
aggregate_axis(kind, dtype, rows, q, axis) ==
    CASE kind \in {"sum", "min", "max"} -> reduce_axis(ufunc_of(kind), dtype, rows, axis)
      [] kind = "mean" ->
           LET sums == reduce_axis("add", dtype, rows, axis)
               count == IF axis = 0 THEN Len(rows) ELSE Len(rows[1])
           IN  [j \in 1..Len(sums) |-> <<sums[j], count>>]
      [] OTHER ->
           LET ls == lanes(rows, axis)
           IN  [j \in 1..Len(ls) |-> aggregate_1d(kind, dtype, ls[j], q)]

\* mutant: only the lower end of the range is checked
percentile_no_upper_bound(q) == q >= 0

\* np.percentile: "Percentiles must be in the range [0, 100]"
percentile_in_range(q) == 0 <= q /\ q <= 100

\* what a call a.<kind>(q, axis=axis) returns or raises
aggregate(a, kind, q, axis) ==
    IF kind = "percentile" /\ ~percentile_in_range(q[1])
    THEN [val |-> None, err |-> "ValueError"]
    ELSE IF axis = None
    THEN [val |-> aggregate_1d(kind, a.dtype, ravel(a), q), err |-> "none"]
    ELSE IF ~axis_in_range(axis[1], a.ndim)
    THEN [val |-> None, err |-> "AxisError"]
    ELSE IF a.ndim = 1
    THEN [val |-> aggregate_1d(kind, a.dtype, a.data, q), err |-> "none"]
    ELSE [val |-> aggregate_axis(kind, a.dtype, a.data, q,
                                 normalize_axis(axis[1], a.ndim)),
          err |-> "none"]

\* 0.0 / 0: not a number
NaN == <<0, 0>>

\* mutant: every aggregate of an array without elements raises
empty_always_raises(kind, dtype) == {[val |-> None, err |-> "ValueError"]}

\* what a call on an array without elements can do: sum returns the identity 0;
\* min and max have no identity and raise; mean divides 0.0 by 0 and std and
\* median take the mean of nothing, each returning nan under a RuntimeWarning;
\* percentile returns nan or raises IndexError, depending on the numpy release
empty_outcomes(kind, dtype) ==
    CASE kind = "sum" -> {[val |-> np_sum(dtype, <<>>), err |-> "none"]}
      [] kind \in {"min", "max"} -> {[val |-> None, err |-> "ValueError"]}
      [] kind \in {"mean", "median"} -> {[val |-> NaN, err |-> "none"]}
      [] kind = "std" -> {[val |-> [sqrt |-> NaN], err |-> "none"]}
      [] kind = "percentile" -> {[val |-> NaN, err |-> "none"],
                                 [val |-> None, err |-> "IndexError"]}

\* every outcome of a call: the arguments are checked first, then an array
\* without elements is dealt with, then the aggregate is computed
outcomes(a, kind, q, axis) ==
    IF /\ Len(ravel(a)) = 0
       /\ kind = "percentile" => percentile_in_range(q[1])
       /\ axis # None => axis_in_range(axis[1], a.ndim)
    THEN empty_outcomes(kind, a.dtype)
    ELSE {aggregate(a, kind, q, axis)}

\* mutant: percentile and median sort the caller's array in place
sorted_in_place(a, kind) ==
    IF kind \in {"percentile", "median"} /\ a.ndim = 1
    THEN [a EXCEPT !.data = Sort(a.data)]
    ELSE a

\* the caller's array after a call: the aggregates read it, percentile and
\* median sort a copy
array_after(a, kind) == a

-----------------------------------------------------------------------------
(* The notebook session *)

AxisArgs == {None, <<-1>>, <<0>>, <<1>>, <<2>>}

Percentiles == {-1, 0, 10, 25, 50, 75, 100, 101}

NoOut == [op |-> "none", q |-> None, axis |-> None, val |-> None, err |-> "none"]

Init == /\ arr \in Arrays
        /\ out = NoOut
        /\ pc = "ready"

\* a cell that calls one aggregate on the array and displays what it returns
Call(kind, q, axis) ==
    /\ pc = "ready"
    /\ \E r \in outcomes(arr, kind, q, axis) :
          out' = [op |-> kind, q |-> q, axis |-> axis, val |-> r.val, err |-> r.err]
    /\ pc' = "displayed"
    /\ arr' = array_after(arr, kind)

\* mutant: the second argument of the built-in sum is ignored
builtin_sum_ignores_start(a, start) == builtin_sum(a.dtype, a.data, 0)

\* what sum(a, start) returns for a 1-D array a
builtin_sum_call(a, start) == builtin_sum(a.dtype, a.data, start)

\* a cell that calls the built-in sum(arr) or sum(arr, 1) on a 1-D array; the
\* start value is displayed in the place of q
SumBuiltin ==
    /\ pc = "ready" /\ arr.ndim = 1
    /\ \E start \in {0, 1} :
          out' = [op |-> "builtin_sum", q |-> <<start>>, axis |-> None,
                  val |-> builtin_sum_call(arr, start), err |-> "none"]
    /\ pc' = "displayed"
    /\ UNCHANGED arr

\* a cell that calls the built-in min(arr) or max(arr) on a 1-D array; of an
\* empty one they raise ValueError
MinMaxBuiltin ==
    /\ pc = "ready" /\ arr.ndim = 1
    /\ \E kind \in {"builtin_min", "builtin_max"} :
          out' = [op |-> kind, q |-> None, axis |-> None,
                  val |-> IF Len(arr.data) = 0 THEN None
                          ELSE IF kind = "builtin_min" THEN builtin_min(arr.data)
                          ELSE builtin_max(arr.data),
                  err |-> IF Len(arr.data) = 0 THEN "ValueError" ELSE "none"]
    /\ pc' = "displayed"
    /\ UNCHANGED arr

Sum == \E axis \in AxisArgs : Call("sum", None, axis)

Min == \E axis \in AxisArgs : Call("min", None, axis)

Max == \E axis \in AxisArgs : Call("max", None, axis)

Mean == \E axis \in AxisArgs : Call("mean", None, axis)

\* std, percentile and median are called on the int64 data only
Std == /\ arr.dtype = "int64"
       /\ \E axis \in AxisArgs : Call("std", None, axis)

Percentile == /\ arr.dtype = "int64"
              /\ \E q \in Percentiles, axis \in AxisArgs : Call("percentile", <<q>>, axis)

Median == /\ arr.dtype = "int64"
          /\ \E axis \in AxisArgs : Call("median", None, axis)

\* the kernel is ready for the next cell
NextCell == /\ pc = "displayed"
            /\ pc' = "ready"
            /\ out' = NoOut
            /\ UNCHANGED arr

Next == \/ Sum \/ Min \/ Max \/ Mean \/ Std \/ Percentile \/ Median
        \/ SumBuiltin \/ MinMaxBuiltin \/ NextCell

Spec == Init /\ [][Next]_vars

-----------------------------------------------------------------------------
(* Vocabulary of the properties *)

\* a call has returned a value (no error) and is on display
Returned(kind) == pc = "displayed" /\ out.op = kind /\ out.err = "none"

\* ... a whole-array call (no axis)
ReturnedAll(kind) == Returned(kind) /\ out.axis = None

\* ... a call on a 2-D array along axis k
ReturnedAxis(k) == /\ pc = "displayed" /\ out.err = "none"
                   /\ arr.ndim = 2 /\ out.axis = <<k>>

NRows == Len(arr.data)

NCols == Len(arr.data[1])

Column(j) == [i \in 1..NRows |-> arr.data[i][j]]

Row(i) == arr.data[i]

Elements == ravel(arr)

NonEmpty == Len(Elements) > 0

RatEq(x, y) == x[1] * y[2] = y[1] * x[2]

-----------------------------------------------------------------------------
(* C1: on a rectangular R x C grid, for every reduction kind, axis 0 returns
   exactly C scalars, the j-th being the reduction of column j, and axis 1
   returns exactly R scalars, the i-th being the reduction of row i: the axis
   argument names the dimension that is eliminated. *)
C1_AxisNamesCollapsedDimension ==
    /\ ReturnedAxis(0) =>
          /\ Len(out.val) = NCols
          /\ \A j \in 1..NCols :
                out.val[j] = aggregate_1d(out.op, arr.dtype, Column(j), out.q)
    /\ ReturnedAxis(1) =>
          /\ Len(out.val) = NRows
          /\ \A i \in 1..NRows :
                out.val[i] = aggregate_1d(out.op, arr.dtype, Row(i), out.q)

\* a 1 x 3 grid reduced along axis 0 keeps its three columns
C1_Witness ==
    /\ ReturnedAxis(0) /\ out.op = "max"
    /\ shape(arr) = <<1, 3>> /\ Len(out.val) = 3
    /\ arr.data[1] = <<2, 0, 1>> /\ out.val = <<2, 0, 1>>

(* C2: for the grid [[1,1,1,0],[3,4,7,2],[0,5,3,8]] the whole-grid sum is 35,
   the minimum along axis 0 is [0,1,1,0] and the maximum along axis 1 is
   [1,7,8]. *)
C2_LiteralGrid ==
    arr = M =>
       /\ ReturnedAll("sum") => out.val = 35
       /\ (Returned("min") /\ out.axis = <<0>>) => out.val = <<0, 1, 1, 0>>
       /\ (Returned("max") /\ out.axis = <<1>>) => out.val = <<1, 7, 8>>

C2_Witness == arr = M /\ Returned("max") /\ out.axis = <<1>> /\ out.val = <<1, 7, 8>>

(* C3: on a non-empty sequence the minimum is <= every element, every element
   is <= the maximum, and both results are elements of the sequence. *)
C3_MinMaxBound ==
    /\ ReturnedAll("min") =>
          /\ \A i \in 1..Len(Elements) : out.val <= Elements[i]
          /\ \E i \in 1..Len(Elements) : out.val = Elements[i]
    /\ ReturnedAll("max") =>
          /\ \A i \in 1..Len(Elements) : Elements[i] <= out.val
          /\ \E i \in 1..Len(Elements) : out.val = Elements[i]

\* the minimum of an array whose smallest element is neither first nor last
C3_Witness == /\ ReturnedAll("min") /\ arr.ndim = 1
              /\ arr.data = <<2, 0, 1>> /\ out.val = 0

-----------------------------------------------------------------------------
\* the sequence s rearranged by the permutation f of its indices
Permuted(s, f) == [i \in 1..Len(s) |-> s[f[i]]]

\* s with the elements at i and j exchanged
Swapped(s, i, j) == [s EXCEPT ![i] = s[j], ![j] = s[i]]

\* every rearrangement of a short sequence; of a long one, every exchange of
\* two elements (the exchanges generate the rearrangements)
Rearrangements(s) ==
    IF Len(s) <= MaxLen
    THEN {Permuted(s, f) : f \in Permutations(1..Len(s))}
    ELSE {Swapped(s, i, j) : i, j \in 1..Len(s)}

(* C4, as stated: for every non-empty sequence S and every permutation P of S,
   the sum of P equals the sum of S. *)
C4_SumOrderIndependent ==
    ReturnedAll("sum") =>
       \A P \in Rearrangements(Elements) : np_sum(arr.dtype, P) = out.val

(* C4, amended: for every non-empty int64 sequence S and every permutation P
   of S, the sum of P equals the sum of S. *)
C4_IntSumOrderIndependent ==
    (ReturnedAll("sum") /\ arr.dtype = "int64") =>
       \A P \in Rearrangements(Elements) : np_sum(arr.dtype, P) = out.val

C4_Witness == /\ ReturnedAll("sum") /\ arr.dtype = "int64" /\ arr.ndim = 1
              /\ arr.data = <<0, 2, 1, 2>> /\ out.val = 5

-----------------------------------------------------------------------------
Indices(s) == 1..Len(s)

\* the k-th smallest element of s, k counted from 0: fewer than k+1 elements
\* lie below it and at least k+1 do not exceed it
OrderStat(s, k) ==
    CHOOSE x \in {s[i] : i \in Indices(s)} :
       /\ Cardinality({i \in Indices(s) : s[i] < x}) <= k
       /\ k < Cardinality({i \in Indices(s) : s[i] <= x})

(* C5: for every non-empty sequence, in any order and of length 1 too,
   percentile 0 is the minimum and percentile 100 is the maximum. *)
C5_PercentileEndpoints ==
    /\ (ReturnedAll("percentile") /\ NonEmpty /\ out.q = <<0>>) =>
          RatEq(out.val, <<np_min(Elements), 1>>)
    /\ (ReturnedAll("percentile") /\ NonEmpty /\ out.q = <<100>>) =>
          RatEq(out.val, <<np_max(Elements), 1>>)

\* percentile 100 of an array whose largest element comes first
C5_Witness == /\ ReturnedAll("percentile") /\ out.q = <<100>> /\ arr.ndim = 1
              /\ arr.data = <<2, 0, 1>> /\ out.val = <<200, 100>>

\* the median as the claim defines it: the middle element of the sorted data
\* when the length is odd, the average of the two middle elements when even
MiddleOfSorted(s) ==
    IF Len(s) % 2 = 1
    THEN <<OrderStat(s, (Len(s) - 1) \div 2), 1>>
    ELSE <<OrderStat(s, Len(s) \div 2 - 1) + OrderStat(s, Len(s) \div 2), 2>>

(* C6: for every non-empty sequence, percentile 50 equals the median: the middle
   element of the sorted sequence (odd length) or the average of its two middle
   elements (even length). *)
C6_Percentile50IsMedian ==
    (ReturnedAll("percentile") /\ NonEmpty /\ out.q = <<50>>) =>
       RatEq(out.val, MiddleOfSorted(Elements))

\* an unsorted array of even length whose two middle values differ: median 1/2
C6_Witness == /\ ReturnedAll("percentile") /\ out.q = <<50>> /\ arr.ndim = 1
              /\ arr.data = <<2, 0, 0, 1>> /\ RatEq(out.val, <<1, 2>>)

\* v[floor(i)] + (i - floor(i)) * (v[ceil(i)] - v[floor(i)]), i = p/100 * (n-1),
\* over the ascending values v[0..n-1] of s
Interpolated(s, p) ==
    LET k == p * (Len(s) - 1)
        fl == k \div 100
        ce == (k + 99) \div 100
    IN  <<100 * OrderStat(s, fl)
             + (k - 100 * fl) * (OrderStat(s, ce) - OrderStat(s, fl)), 100>>

(* C7: for every non-empty sequence with ascending values v[0..n-1] and every p
   in [0,100], percentile returns v[floor(i)] + (i - floor(i)) * (v[ceil(i)] -
   v[floor(i)]) with i = p/100 * (n-1), whatever the order of the input; for the
   44 president heights that is 174.75 at p = 25 and 183.5 at p = 75. *)
C7_LinearInterpolation ==
    (ReturnedAll("percentile") /\ NonEmpty) =>
       /\ RatEq(out.val, Interpolated(Elements, out.q[1]))
       /\ (arr = heights /\ out.q = <<25>>) => RatEq(out.val, <<17475, 100>>)
       /\ (arr = heights /\ out.q = <<75>>) => RatEq(out.val, <<18350, 100>>)

C7_Witness == /\ ReturnedAll("percentile") /\ out.q = <<25>>
              /\ arr = heights /\ out.val = <<17475, 100>>

-----------------------------------------------------------------------------
\* one step of the long-hand square root: from p = <<r, c - r^2>> to
\* <<r', 100*c + pair - r'^2>> with r' = floor(sqrt(100*c + pair))
RootStep(p, pair) ==
    LET c == 100 * p[2] + pair
        d == CHOOSE e \in 0..9 :
                /\ (20 * p[1] + e) * e <= c
                /\ e < 9 => (20 * p[1] + e + 1) * (e + 1) > c
    IN  <<10 * p[1] + d, c - (20 * p[1] + d) * d>>

\* <<r, x - r^2>> with r = floor(sqrt(x)), two decimal digits of x per step
RECURSIVE Root(_)
Root(x) == IF x = 0 THEN <<0, 0>> ELSE RootStep(Root(x \div 100), x % 100)

\* <<r, x * 100^k - r^2>> with r = floor(sqrt(x) * 10^k)
RECURSIVE SqrtDigits(_, _)
SqrtDigits(x, k) == IF k = 0 THEN Root(x) ELSE RootStep(SqrtDigits(x, k - 1), 0)

\* a rational x rounded to four decimals is t / 10^4
RoundsTo4(x, t) == /\ (2 * t - 1) * x[2] <= 2 * 10000 * x[1]
                   /\ 2 * 10000 * x[1] < (2 * t + 1) * x[2]

\* sqrt(a / n^2) rounded to four decimals is t / 10^4
RootRoundsTo4(a, n, t) ==
    LET r == SqrtDigits(4 * a, 4)[1]    \* floor(2 * sqrt(a) * 10^4)
    IN  n * (2 * t - 1) <= r /\ r < n * (2 * t + 1)

(* C8: for the 44 president heights the mean is 7922/44, about 180.0455, the
   population standard deviation is about 6.9836, the minimum is exactly 163,
   the maximum exactly 193 and the 50th percentile (median) exactly 182.0. *)
C8_HeightsSummary ==
    arr = heights =>
       /\ ReturnedAll("mean") =>
             /\ out.val = <<7922, 44>>
             /\ RoundsTo4(out.val, 1800455)
       /\ ReturnedAll("std") =>
             /\ out.val.sqrt[2] = 44 * 44 * 44
             /\ out.val.sqrt[1] % 44 = 0
             /\ RootRoundsTo4(out.val.sqrt[1] \div 44, 44, 69836)
       /\ ReturnedAll("min") => out.val = 163
       /\ ReturnedAll("max") => out.val = 193
       /\ (ReturnedAll("percentile") /\ out.q = <<50>>) => RatEq(out.val, <<182, 1>>)
       /\ ReturnedAll("median") => RatEq(out.val, <<182, 1>>)

C8_Witness == /\ arr = heights /\ ReturnedAll("std")
              /\ RootRoundsTo4(out.val.sqrt[1] \div 44, 44, 69836)

-----------------------------------------------------------------------------
\* s[lo]^2 + ... + s[hi]^2
RECURSIVE SumOfSquares(_, _, _)
SumOfSquares(s, lo, hi) ==
    IF lo = hi THEN s[lo] * s[lo]
    ELSE SumOfSquares(s, lo, (lo + hi) \div 2) + SumOfSquares(s, (lo + hi) \div 2 + 1, hi)

\* s[lo] + ... + s[hi]
RECURSIVE SumOf(_, _, _)
SumOf(s, lo, hi) ==
    IF lo = hi THEN s[lo]
    ELSE SumOf(s, lo, (lo + hi) \div 2) + SumOf(s, (lo + hi) \div 2 + 1, hi)

\* n times the sum of squared deviations from the mean: n * sum(x^2) - sum(x)^2
NTimesSSD(s) ==
    Len(s) * SumOfSquares(s, 1, Len(s)) - SumOf(s, 1, Len(s)) * SumOf(s, 1, Len(s))

(* C9: the standard deviation of a non-empty sequence of length n is the
   population one: its square is the sum of squared deviations from the mean
   divided by n, not by n-1; of a one-element sequence it is 0, not an error. *)
C9_PopulationStd ==
    (ReturnedAll("std") /\ NonEmpty) =>
       LET n == Len(Elements)
       IN  \* SSD / n  =  NTimesSSD / n^2  =  (n * NTimesSSD) / n^3
           /\ out.val.sqrt[2] = n * n * n
           /\ out.val.sqrt[1] = n * NTimesSSD(Elements)
           /\ n = 1 => out.val.sqrt = <<0, 1>>

\* two elements 0 and 2: mean 1, population variance 1 (the sample variance is 2)
C9_Witness == /\ ReturnedAll("std") /\ arr.ndim = 1 /\ arr.data = <<0, 2>>
              /\ RatEq(out.val.sqrt, <<1, 1>>)

\* a one-element array: standard deviation 0
C9_WitnessSingle == /\ ReturnedAll("std") /\ arr.ndim = 1 /\ Len(arr.data) = 1
                    /\ out.val.sqrt = <<0, 1>>

-----------------------------------------------------------------------------
\* the call on display is a reduction of a valid kind along a given axis
AxisCall == /\ pc = "displayed" /\ out.axis # None
            /\ out.op = "percentile" => (0 <= out.q[1] /\ out.q[1] <= 100)

(* C10: for a grid of rank r (1 or 2) and every reduction kind, a call with an
   axis index >= r fails with the invalid-axis error and returns no result; the
   axis is never clamped or otherwise coerced to a valid one. *)
C10_AxisOutOfRange ==
    (AxisCall /\ out.axis[1] >= arr.ndim) =>
       out.err = "AxisError" /\ out.val = None

\* axis 1 on a 1-D array
C10_Witness == /\ AxisCall /\ arr.ndim = 1 /\ out.axis = <<1>>
               /\ out.op = "sum" /\ out.err = "AxisError"

-----------------------------------------------------------------------------
\* a whole-array call on an array without elements is on display
EmptyCall(kind) == /\ pc = "displayed" /\ ~NonEmpty
                   /\ out.op = kind /\ out.axis = None
                   /\ kind = "percentile" => percentile_in_range(out.q[1])

(* C11, as stated: on an empty input the minimum, the maximum, the mean, the
   standard deviation and the percentile fail with an error, while the sum does
   not fail and returns the identity 0. *)
C11_EmptyInputFails ==
    /\ \A kind \in {"min", "max", "mean", "std", "percentile"} :
          EmptyCall(kind) => out.err # "none"
    /\ EmptyCall("sum") => (out.err = "none" /\ out.val = 0)

(* C11, amended: on an empty input the minimum and the maximum fail with an
   error and return nothing; the sum does not fail and returns the identity 0;
   the mean and the standard deviation do not fail and return NaN; the
   percentile either fails or returns NaN. *)
C11_EmptyInput ==
    /\ \A kind \in {"min", "max"} :
          EmptyCall(kind) => (out.err = "ValueError" /\ out.val = None)
    /\ EmptyCall("sum") => (out.err = "none" /\ out.val = 0)
    /\ EmptyCall("mean") => (out.err = "none" /\ out.val = NaN)
    /\ EmptyCall("std") => (out.err = "none" /\ out.val.sqrt = NaN)
    /\ EmptyCall("percentile") =>
          \/ out.err # "none" /\ out.val = None
          \/ out.err = "none" /\ out.val = NaN

\* the mean of an empty array is on display: NaN, and no error
C11_Witness == EmptyCall("mean") /\ out.err = "none" /\ out.val = NaN

-----------------------------------------------------------------------------
\* a whole-array percentile call on a non-empty array is on display
PercentileCall == /\ pc = "displayed" /\ out.op = "percentile"
                  /\ out.axis = None /\ NonEmpty

(* C12: for every non-empty sequence, percentile fails with the
   invalid-parameter error whenever p < 0 or p > 100 and returns nothing, so no
   out-of-range p is clamped into the range; it succeeds for every p with
   0 <= p <= 100, both end points included. *)
C12_PercentileRange ==
    PercentileCall =>
       /\ (out.q[1] < 0 \/ out.q[1] > 100) =>
             (out.err = "ValueError" /\ out.val = None)
       /\ (0 <= out.q[1] /\ out.q[1] <= 100) =>
             (out.err = "none" /\ out.val # None)

\* p = 101 on a three-element array: an error, not the maximum
C12_Witness == /\ PercentileCall /\ out.q = <<101>> /\ arr.ndim = 1
               /\ arr.data = <<2, 0, 1>> /\ out.err = "ValueError"

-----------------------------------------------------------------------------
(* C13: no reduction changes its input: over every cell of the session, a call
   that returns or a call that fails, the array keeps its dimensions and every
   element in its place; the sort of percentile and median does not reorder the
   caller's data. *)
C13_InputUnchanged == [][arr' = arr]_vars

\* the percentile of an unsorted array is on display and the array is as it was
C13_Witness == /\ pc = "displayed" /\ out.op = "percentile" /\ out.err = "none"
               /\ arr.ndim = 1 /\ arr.data = <<2, 0, 1>> /\ arr.data # Sort(arr.data)

-----------------------------------------------------------------------------
\* the k-th smallest member of a set of numbers, k counted from 1
Nth(S, k) == CHOOSE x \in S : Cardinality({y \in S : y < x}) = k - 1

\* the ways to cut a sequence of n elements into contiguous non-empty chunks, as
\* sets of cut positions (a cut at c separates element c from element c+1):
\* every way for a short sequence, the cuts into one or two chunks for a long one
Cuts(n) == IF n <= MaxLen THEN SUBSET (1..(n - 1))
           ELSE {{}} \cup {{c} : c \in 1..(n - 1)}

\* the chunks of s for a set of cut positions, in the order of s
Chunks(s, cuts) ==
    LET ends == cuts \cup {0, Len(s)}
    IN  [k \in 1..(Cardinality(ends) - 1) |->
            SubSeq(s, Nth(ends, k) + 1, Nth(ends, k + 1))]

\* the partial results: every chunk reduced on its own
Partials(kind, dtype, s, cuts) ==
    LET chunks == Chunks(s, cuts)
    IN  [k \in 1..Len(chunks) |-> aggregate_1d(kind, dtype, chunks[k], None)]

\* every chunk has the same number of elements
EqualChunks(s, cuts) ==
    LET chunks == Chunks(s, cuts)
    IN  \A k \in 1..Len(chunks) : Len(chunks[k]) = Len(chunks[1])

\* the exact sum of the fractions r[1..k]
RECURSIVE FractionSum(_, _)
FractionSum(r, k) ==
    IF k = 0 THEN <<0, 1>>
    ELSE LET rest == FractionSum(r, k - 1)
         IN  <<rest[1] * r[k][2] + r[k][1] * rest[2], rest[2] * r[k][2]>>

\* the mean of the means of the chunks, exactly
MeanOfMeans(dtype, s, cuts) ==
    LET parts == Partials("mean", dtype, s, cuts)
        total == FractionSum(parts, Len(parts))
    IN  <<total[1], total[2] * Len(parts)>>

\* for every split into chunks and every order in which the partial results
\* arrive, reducing the partial results gives the result on display
ChunkedAgrees(kind) ==
    \A cuts \in Cuts(Len(Elements)) :
       \A P \in Rearrangements(Partials(kind, arr.dtype, Elements, cuts)) :
          aggregate_1d(kind, arr.dtype, P, None) = out.val

(* C14, as stated: for sum, minimum, maximum and mean, for every non-empty
   sequence and every split of it into contiguous non-empty chunks, of equal or
   unequal sizes, reducing each chunk and then reducing the partial results with
   the same operation gives the one-pass result, in whatever order the chunks
   complete. *)
C14_ChunkedFold ==
    /\ \A kind \in {"sum", "min", "max"} :
          (ReturnedAll(kind) /\ NonEmpty) => ChunkedAgrees(kind)
    /\ (ReturnedAll("mean") /\ NonEmpty /\ arr.dtype = "int64") =>
          \A cuts \in Cuts(Len(Elements)) :
             RatEq(MeanOfMeans(arr.dtype, Elements, cuts), out.val)

(* C14, amended: for minimum and maximum, and for sum over integers, every split
   into contiguous non-empty chunks and every order of the partial results
   gives the one-pass result; for mean over integers, taken exactly, the mean
   of the chunk means is the one-pass mean when the chunks have equal sizes. *)
C14_ChunkedFoldExact ==
    /\ \A kind \in {"min", "max"} :
          (ReturnedAll(kind) /\ NonEmpty) => ChunkedAgrees(kind)
    /\ (ReturnedAll("sum") /\ NonEmpty /\ arr.dtype = "int64") => ChunkedAgrees("sum")
    /\ (ReturnedAll("mean") /\ NonEmpty /\ arr.dtype = "int64") =>
          \A cuts \in Cuts(Len(Elements)) :
             EqualChunks(Elements, cuts) =>
                RatEq(MeanOfMeans(arr.dtype, Elements, cuts), out.val)

\* the sum of [0,2,1,2] is on display; cut after the first element the partial
\* sums are 0 and 5, cut into halves the partial means are 1 and 3/2
C14_Witness ==
    /\ ReturnedAll("sum") /\ arr.dtype = "int64" /\ arr.ndim = 1
    /\ arr.data = <<0, 2, 1, 2>> /\ out.val = 5
    /\ Partials("sum", arr.dtype, Elements, {1}) = <<0, 5>>
    /\ Partials("mean", arr.dtype, Elements, {2}) = <<<<2, 2>>, <<3, 2>>>>

-----------------------------------------------------------------------------
\* the grid row by row: element k of the sequence is the element of row
\* (k-1) div C + 1 and column (k-1) mod C + 1
Flattened ==
    [k \in 1..(NRows * NCols) |-> arr.data[((k - 1) \div NCols) + 1][((k - 1) % NCols) + 1]]

(* C15: for every reduction kind, the whole-array reduction of a 2-D grid folds
   every element of every row and returns one scalar, equal to the reduction of
   the 1-D sequence obtained by flattening the grid row by row. *)
C15_WholeGridIsFlattened ==
    \A kind \in {"sum", "min", "max", "mean", "std", "percentile", "median"} :
       (ReturnedAll(kind) /\ arr.ndim = 2) =>
          /\ out.val = aggregate_1d(kind, arr.dtype, Flattened, out.q)
          /\ kind \in {"sum", "min", "max"} => out.val \in Int

\* the maximum of a 2 x 2 grid that lies in its second row
C15_Witness == /\ ReturnedAll("max") /\ arr.ndim = 2
               /\ arr.data = <<<<0, 1>>, <<2, 0>>>> /\ out.val = 2

-----------------------------------------------------------------------------
\* a call of a built-in on a 1-D array has returned and is on display
ReturnedBuiltin(kind) == pc = "displayed" /\ out.op = kind /\ out.err = "none"

(* C16, as stated: on the same 1-D array the element-by-element built-in and
   the vectorised aggregate return the same result: sum(L) equals np.sum(L),
   min(A) equals np.min(A) and max(A) equals np.max(A). *)
C16_BuiltinEqualsVectorised ==
    /\ (ReturnedBuiltin("builtin_sum") /\ out.q = <<0>>) =>
          out.val = np_sum(arr.dtype, arr.data)
    /\ ReturnedBuiltin("builtin_min") => out.val = np_min(arr.data)
    /\ ReturnedBuiltin("builtin_max") => out.val = np_max(arr.data)

(* C16, amended: on the same 1-D array min(A) equals np.min(A) and max(A)
   equals np.max(A), and on an array of integers sum(L) equals np.sum(L). *)
C16_BuiltinEqualsVectorisedExact ==
    /\ (ReturnedBuiltin("builtin_sum") /\ out.q = <<0>> /\ arr.dtype = "int64") =>
          out.val = np_sum(arr.dtype, arr.data)
    /\ ReturnedBuiltin("builtin_min") => out.val = np_min(arr.data)
    /\ ReturnedBuiltin("builtin_max") => out.val = np_max(arr.data)

\* min() of a float array whose smallest element is neither first nor last
C16_Witness == /\ ReturnedBuiltin("builtin_min") /\ arr.dtype = "float64"
               /\ arr.data = <<2, 1, 2>> /\ out.val = 1 /\ np_min(arr.data) = 1

-----------------------------------------------------------------------------
(* C17: the second positional argument means different things in the two sum
   functions: built-in sum(x, 1) starts the accumulation at 1 and returns 1
   plus the sum of the elements of x, whereas np.sum(x, 1) takes 1 as the axis
   and returns one sum per row of a 2-D x, and is an invalid-axis call on a
   1-D x. *)
C17_SecondArgument ==
    /\ (ReturnedBuiltin("builtin_sum") /\ out.q = <<1>>) =>
          \* the fold of x from 1 is the fold of 1 followed by x from 0
          /\ out.val = builtin_sum(arr.dtype, <<1>> \o arr.data, 0)
          /\ (arr.dtype = "int64" /\ NonEmpty) =>
                out.val = 1 + SumOf(arr.data, 1, Len(arr.data))
          /\ ~NonEmpty => out.val = 1
    /\ (pc = "displayed" /\ out.op = "sum" /\ out.axis = <<1>>) =>
          IF arr.ndim = 2
          THEN /\ out.err = "none"
               /\ Len(out.val) = NRows
               /\ \A i \in 1..NRows : out.val[i] = np_sum(arr.dtype, Row(i))
          ELSE out.err = "AxisError" /\ out.val = None

\* sum(x, 1) of [0,2,1,2] is 6
C17_Witness == /\ ReturnedBuiltin("builtin_sum") /\ out.q = <<1>>
               /\ arr.dtype = "int64" /\ arr.data = <<0, 2, 1, 2>> /\ out.val = 6

\* np.sum(x, 1) of a 2 x 2 grid is the two row sums
C17_WitnessAxis == /\ Returned("sum") /\ out.axis = <<1>> /\ arr.dtype = "int64"
                   /\ arr.data = <<<<0, 1>>, <<2, 0>>>> /\ out.val = <<1, 2>>

-----------------------------------------------------------------------------
\* what the call of kind along axis k returns for the array on display
AlongAxis(kind, k) == aggregate(arr, kind, None, <<k>>).val

\* reducing the axis-0 results and reducing the axis-1 results both give the
\* whole-grid result on display
AxisWiseAgrees(kind) ==
    /\ aggregate_1d(kind, arr.dtype, AlongAxis(kind, 0), None) = out.val
    /\ aggregate_1d(kind, arr.dtype, AlongAxis(kind, 1), None) = out.val

(* C18, as stated: on every non-empty rectangular 2-D grid the sum of the
   axis-0 sums equals the sum of the axis-1 sums equals the whole-grid sum, and
   likewise for the minimum and for the maximum. *)
C18_AxisWiseAgreesWithWhole ==
    \A kind \in {"sum", "min", "max"} :
       (ReturnedAll(kind) /\ arr.ndim = 2) => AxisWiseAgrees(kind)

(* C18, amended: on every non-empty rectangular 2-D grid the minimum of the
   axis-0 minima equals the minimum of the axis-1 minima equals the whole-grid
   minimum, and likewise for the maximum; on a grid of integers the sum of the
   axis-0 sums equals the sum of the axis-1 sums equals the whole-grid sum. *)
C18_AxisWiseAgreesWithWholeExact ==
    /\ \A kind \in {"min", "max"} :
          (ReturnedAll(kind) /\ arr.ndim = 2) => AxisWiseAgrees(kind)
    /\ (ReturnedAll("sum") /\ arr.ndim = 2 /\ arr.dtype = "int64") =>
          AxisWiseAgrees("sum")

\* the grid of the notebook: column sums [4,10,11,10], row sums [3,16,16], 35
C18_Witness == /\ arr = M /\ ReturnedAll("sum") /\ out.val = 35
               /\ AlongAxis("sum", 0) = <<4, 10, 11, 10>>
               /\ AlongAxis("sum", 1) = <<3, 16, 16>>

-----------------------------------------------------------------------------
\* x <= y for fractions with positive denominators
RatLe(x, y) == x[1] * y[2] <= y[1] * x[2]

\* the fraction x lies between the smallest and the largest element
WithinRange(x) == /\ RatLe(<<np_min(Elements), 1>>, x)
                  /\ RatLe(x, <<np_max(Elements), 1>>)

\* the percentile on display lies within the range of the data and no
\* percentile at a larger p is below it
PercentileOrdered ==
    /\ WithinRange(out.val)
    /\ \A p \in Percentiles :
          (out.q[1] <= p /\ percentile_in_range(p)) =>
             RatLe(out.val, np_percentile(Elements, p))

(* C19, as stated: for every non-empty sequence, minimum <= mean <= maximum,
   and for all p <= q in [0,100], minimum <= percentile(p) <= percentile(q) <=
   maximum. *)
C19_SummariesOrdered ==
    /\ (ReturnedAll("mean") /\ NonEmpty) => WithinRange(out.val)
    /\ (ReturnedAll("percentile") /\ NonEmpty) => PercentileOrdered

(* C19, amended: for every non-empty sequence of integers, minimum <= mean <=
   maximum, and for all p <= q in [0,100], minimum <= percentile(p) <=
   percentile(q) <= maximum. *)
C19_IntSummariesOrdered ==
    /\ (ReturnedAll("mean") /\ NonEmpty /\ arr.dtype = "int64") => WithinRange(out.val)
    /\ (ReturnedAll("percentile") /\ NonEmpty /\ arr.dtype = "int64") => PercentileOrdered

\* the 25th percentile of the heights, 174.75, lies between the minimum 163 and
\* the 75th percentile 183.5, which is below the maximum 193
C19_Witness ==
    /\ arr = heights /\ ReturnedAll("percentile") /\ out.q = <<25>>
    /\ RatLe(<<163, 1>>, out.val)
    /\ RatLe(out.val, np_percentile(Elements, 75))
    /\ np_percentile(Elements, 75) = <<18350, 100>> /\ np_max(Elements) = 193

====
